---- MODULE Spec2Model ----
(***************************************************************************)
(* A model of calendar_analyzer.py: main, get_calendar_path,               *)
(* analyze_calendar, analyze_sqlite_calendar and generate_summary.         *)
(*                                                                         *)
(* Instants are whole seconds since 2001-01-01T00:00:00 UTC (the epoch the *)
(* SQLite reader uses).  A datetime carrying tzinfo=PACIFIC is the record  *)
(* [some, wall, fold]: wall is its clock reading in seconds since          *)
(* 2001-01-01T00:00:00 on the Pacific clock, fold is Python's fold flag.   *)
(* Hours are exact multiples of 1/3600 hour: the number 1 (hour) of the    *)
(* code is SecondsPerHour units, and total_seconds() / 3600 is the number  *)
(* of seconds.                                                             *)
(***************************************************************************)
EXTENDS Integers, Sequences, FiniteSets, TLC

\* ------------------------------------------------------------------ time

SecondsPerHour == 3600

SecondsPerDay == 86400

\* Offsets of America/Los_Angeles from UTC, in seconds.
PDT == -25200

PST == -28800

\* The daylight-time intervals of America/Los_Angeles for 2000..2002, as
\* pairs <<first instant of PDT, first instant of PST>>.
DstIntervals ==
    { << -23637600, -5497200 >>,     \* 2000-04-02T10:00Z .. 2000-10-29T09:00Z
      << 7812000, 25952400 >>,       \* 2001-04-01T10:00Z .. 2001-10-28T09:00Z
      << 39866400, 57402000 >> }     \* 2002-04-07T10:00Z .. 2002-10-27T09:00Z

\* tzinfo.utcoffset at an instant.
UtcOffset(t) ==
    IF \E iv \in DstIntervals : iv[1] <= t /\ t < iv[2] THEN PDT ELSE PST

\* A clock reading that occurs twice (the hour repeated when PDT ends).
IsAmbiguous(wall) ==
    \E iv \in DstIntervals : iv[2] + PST <= wall /\ wall < iv[2] + PDT

\* tzinfo.utcoffset of a Pacific clock reading: dateutil places a transition
\* at its UTC time plus the standard offset, and lets fold choose between the
\* two passes of a repeated hour.
WallOffset(wall, fold) ==
    IF IsAmbiguous(wall) /\ fold = 0 THEN PDT
    ELSE IF \E iv \in DstIntervals : iv[1] + PST <= wall /\ wall < iv[2] + PST
         THEN PDT ELSE PST

\* A Pacific datetime: the clock reading in whole seconds, fold, and the
\* microseconds past the second.
NoneDt == [some |-> FALSE, wall |-> 0, fold |-> 0, microsecond |-> 0]

\* The instant a Pacific datetime denotes, in whole seconds (rounded down).
Instant(dt) == dt.wall - WallOffset(dt.wall, dt.fold)

\* datetime.astimezone(PACIFIC) of the instant t.
ToPacific(t) ==
    LET w == t + UtcOffset(t)
    IN  [some |-> TRUE, wall |-> w,
         fold |-> IF IsAmbiguous(w) /\ UtcOffset(t) = PST THEN 1 ELSE 0,
         microsecond |-> 0]

\* A reading of the clock: whole seconds and microseconds.
Clock(sec, micro) == [sec |-> sec, microsecond |-> micro]

\* datetime.now(PACIFIC) when the clock reads c.
Now(c) == [ToPacific(c.sec) EXCEPT !.microsecond = c.microsecond]

\* convert_to_pacific reading a datetime without tzinfo as Pacific time.
convert_to_pacific_local(dt) ==
    IF dt.tzinfo = "NONE"
    THEN [some |-> TRUE, wall |-> dt.clock, fold |-> 0, microsecond |-> 0]
    ELSE ToPacific(dt.clock)

\* convert_to_pacific(dt): dt is [tzinfo, clock]; a datetime without tzinfo
\* is given tzinfo=UTC, and the result is the Pacific datetime of the instant.
convert_to_pacific(dt) ==
    LET aware == IF dt.tzinfo = "NONE" THEN [dt EXCEPT !.tzinfo = "UTC"] ELSE dt
    IN  ToPacific(aware.clock)

\* Comparison of two datetimes that carry the same tzinfo object (PACIFIC):
\* Python compares the clock readings and ignores tzinfo and fold.
DtLe(a, b) ==
    a.wall < b.wall \/ (a.wall = b.wall /\ a.microsecond <= b.microsecond)

DtLt(a, b) ==
    a.wall < b.wall \/ (a.wall = b.wall /\ a.microsecond < b.microsecond)

\* dt - timedelta(days=n): arithmetic on the clock reading; fold is reset.
MinusDays(dt, n) ==
    [some |-> TRUE, wall |-> dt.wall - n * SecondsPerDay, fold |-> 0,
     microsecond |-> dt.microsecond]

\* datetime.date() and datetime.time() of a Pacific datetime.
DateOf(dt) == dt.wall \div SecondsPerDay

TimeOf(dt) == dt.wall % SecondsPerDay

\* ------------------------------------------------------- date arguments

IsLeap(y) == (y % 4 = 0 /\ y % 100 # 0) \/ y % 400 = 0

DaysInMonth(y, m) ==
    IF m = 2 THEN (IF IsLeap(y) THEN 29 ELSE 28)
    ELSE IF m \in {4, 6, 9, 11} THEN 30 ELSE 31

RECURSIVE DaysBeforeMonth(_, _)
DaysBeforeMonth(y, m) ==
    IF m = 1 THEN 0 ELSE DaysBeforeMonth(y, m - 1) + DaysInMonth(y, m - 1)

RECURSIVE DaysBeforeYear(_)
DaysBeforeYear(y) ==
    IF y = 2001 THEN 0
    ELSE IF y > 2001
         THEN DaysBeforeYear(y - 1) + (IF IsLeap(y - 1) THEN 366 ELSE 365)
         ELSE DaysBeforeYear(y + 1) - (IF IsLeap(y) THEN 366 ELSE 365)

\* Days from 2001-01-01 to the date y-m-d.
DayNumber(y, m, d) == DaysBeforeYear(y) + DaysBeforeMonth(y, m) + d - 1

\* A date argument is the text of "--start-date" / "--end-date": absent
\* (the option was not given), or a text [sep, y, m, d] read as
\* "y<sep>m<sep>d"; the text "" is [sep |-> "", ...].
NoArg == [given |-> FALSE, sep |-> "", y |-> 0, m |-> 0, d |-> 0]

DateArg(sep, y, m, d) == [given |-> TRUE, sep |-> sep, y |-> y, m |-> m, d |-> d]

EmptyArg == DateArg("", 0, 0, 0)

\* Python's truth value of an argument: None and "" are false.
Truthy(arg) == arg.given /\ arg.sep # ""

\* Whether datetime.strptime(text, '%Y-%m-%d') succeeds.
StrptimeOk(arg) ==
    /\ arg.sep = "-"
    /\ arg.y >= 1
    /\ arg.m \in 1..12
    /\ arg.d >= 1 /\ arg.d <= DaysInMonth(arg.y, arg.m)

\* datetime.strptime(text, '%Y-%m-%d').replace(tzinfo=PACIFIC)
Strptime(arg) ==
    [some |-> TRUE, wall |-> DayNumber(arg.y, arg.m, arg.d) * SecondsPerDay, fold |-> 0,
     microsecond |-> 0]

\* ------------------------------------------------------------ calendars

\* Text is a sequence of characters.
Chars(c, n) == [i \in 1..n |-> c]

NoTitle == <<"N", "o", " ", "T", "i", "t", "l", "e">>

\* The instant y-m-d h:mi:s UTC.
Utc(y, m, d, h, mi, s) ==
    DayNumber(y, m, d) * SecondsPerDay + h * SecondsPerHour + mi * 60 + s

\* A VEVENT of a text calendar, as icalendar's parser stores it:
\*   dtstart  [kind, tzinfo, clock]: kind "datetime" (a datetime, with
\*            tzinfo "UTC" or "NONE"), "date" (a date-only value) or
\*            "absent" (no DTSTART property);
\*   summary  [present, text];
\*   duration [type, seconds]: "absent", "vDuration" (a parsed DURATION,
\*            the property object wrapping a timedelta) or "vText" (a
\*            DURATION the parser could not read, kept as text).
Event(kind, tzinfo, clock, text, dtype, secs) ==
    [dtstart  |-> [kind |-> kind, tzinfo |-> tzinfo, clock |-> clock],
     summary  |-> [present |-> text # <<>>, text |-> text],
     duration |-> [type |-> dtype, seconds |-> secs]]

\* event.get('duration', default): the stored property object, or the default.
EventGetDuration(event, default) ==
    IF event.duration.type = "absent" THEN default ELSE event.duration

\* event.get('summary', 'No Title') under str().
EventGetSummary(event) ==
    IF event.summary.present THEN event.summary.text ELSE NoTitle

\* timedelta(hours=1)
OneHourDelta == [type |-> "timedelta", seconds |-> SecondsPerHour]

\* A row of the CalendarItem table: summary (NULL or text), start_date and
\* end_date in seconds since 2001-01-01T00:00:00 UTC.
Row(text, isnull, s, e) ==
    [summary |-> [null |-> isnull, text |-> text], start_date |-> s, end_date |-> e]

\* ----------------------------------------------------------- filesystem

\* A file name is [stem, suffix]; a path is a sequence of names.
Name(stem, suffix) == [stem |-> stem, suffix |-> suffix]

\* str.lower() on the suffixes that occur.
Lower(suffix) ==
    CASE suffix = ".ICS" -> ".ics"
      [] suffix = ".ICBU" -> ".icbu"
      [] suffix = ".SQLITEDB" -> ".sqlitedb"
      [] OTHER -> suffix

\* Path.suffix
SuffixOf(path) == IF path = <<>> THEN "" ELSE path[Len(path)].suffix

\* path / name
Join(path, name) == Append(path, name)

NoIcal == [valid |-> FALSE, events |-> <<>>]

NoDb == [isdb |-> FALSE, rows |-> <<>>]

\* What is stored at a path: a regular file (its content read as a text
\* calendar, ical, and as a database, db) or a directory (the names it
\* lists, in directory order, and whether it can be listed).
FileNode(mtime, ical, db) ==
    [kind |-> "file", mtime |-> mtime, listing |-> <<>>, listable |-> FALSE,
     ical |-> ical, db |-> db]

DirNode(mtime, listing, listable) ==
    [kind |-> "dir", mtime |-> mtime, listing |-> listing, listable |-> listable,
     ical |-> NoIcal, db |-> NoDb]

IcsFile(mtime, events) == FileNode(mtime, [valid |-> TRUE, events |-> events], NoDb)

DbFile(mtime, rows) == FileNode(mtime, NoIcal, [isdb |-> TRUE, rows |-> rows])

\* A file that is neither a text calendar nor a database.
JunkFile(mtime) == FileNode(mtime, NoIcal, NoDb)

\* The filesystem is a function from the paths that exist to their nodes.
Exists(f, path) == path \in DOMAIN f

IsDir(f, path) == Exists(f, path) /\ f[path].kind = "dir"

\* Path.iterdir(): the entries of a directory; raising OSError is the
\* record's err field.
IterDir(f, path) ==
    IF IsDir(f, path) /\ f[path].listable
    THEN [err |-> FALSE, items |-> f[path].listing]
    ELSE [err |-> TRUE, items |-> <<>>]

\* The subsequence of names with the given suffix.
RECURSIVE WithSuffix(_, _)
WithSuffix(names, suffix) ==
    IF names = <<>> THEN <<>>
    ELSE LET rest == WithSuffix(Tail(names), suffix)
         IN  IF Head(names).suffix = suffix THEN <<Head(names)>> \o rest ELSE rest

\* list(path.glob('*' + suffix)): the matching entries directly inside the
\* directory, as paths; a path that cannot be listed yields none.
Glob(f, path, suffix) ==
    LET names == WithSuffix(IterDir(f, path).items, suffix)
    IN  [i \in 1..Len(names) |-> Join(path, names[i])]

\* list(path.rglob('*' + suffix)): the matches inside the directory, then
\* those of each of its subdirectories in turn.
RECURSIVE RGlobFrom(_, _, _, _)
RGlob(f, path, suffix) == RGlobFrom(f, path, suffix, IterDir(f, path).items)

RGlobFrom(f, path, suffix, names) ==
    IF names = <<>> THEN Glob(f, path, suffix)
    ELSE LET last == Join(path, names[Len(names)])
             before == RGlobFrom(f, path, suffix, SubSeq(names, 1, Len(names) - 1))
         IN  IF IsDir(f, last) THEN before \o RGlob(f, last, suffix) ELSE before

\* ---------------------------------------------------------------- state

VARIABLES
    entry,          \* the function called: "main", "get_calendar_path", ...
    pc,             \* where the run is
    argv,           \* the command line: [options, calendar, start_date, end_date, days, titles]
    now,            \* the clock: what datetime.now reads, [sec, microsecond]
    fs,             \* the filesystem
    resolve_err,    \* whether Path.resolve raises OSError
    calendar_file,  \* get_calendar_path's argument
    calendar_path,  \* the path get_calendar_path returned / analyze_calendar reads
    start_date, end_date, days_back, num_titles,
    cal,            \* the events (rows) the aggregation loop has still to process
    meetings, meeting_stats,
    handles,        \* the open file handles and database connections
    summary,        \* generate_summary's result
    stdout,         \* what was printed, one message per element
    exit_code,      \* the process exit status; -1 while running
    raised          \* the exception that left the entry function uncaught, or ""

vars == <<entry, pc, argv, now, fs, resolve_err, calendar_file, calendar_path,
          start_date, end_date, days_back, num_titles, cal, meetings,
          meeting_stats, handles, summary, stdout, exit_code, raised>>

\* A calendar argument: None, or a text naming a path ("" is the empty path).
NoCalendar == [given |-> FALSE, path |-> <<>>]

CalendarArg(path) == [given |-> TRUE, path |-> path]

\* The defaults of the signatures and of the command line.
DefaultDays == 365

DefaultTitles == 50

\* A dict / defaultdict(int): the keys that are set, and whether a missing
\* key reads as 0 (defaultdict) or raises KeyError (dict).
EmptyStats == [default |-> TRUE, total_meetings |-> [set |-> FALSE, v |-> 0],
               total_hours |-> [set |-> FALSE, v |-> 0]]

\* stats[key] += amount on a defaultdict(int)
StatsAdd(stats, key, amount) ==
    [stats EXCEPT ![key] = [set |-> TRUE, v |-> @.v + amount]]

NoSummary == [kind |-> "none"]

Emit(out, msgs) == out \o msgs

\* sys.exit(1)
Exit1 ==
    /\ pc' = "exit"
    /\ exit_code' = 1

\* An exception no handler catches: the interpreter ends with status 1.
Raise(name) ==
    /\ pc' = "raised"
    /\ raised' = name
    /\ exit_code' = 1

\* ----------------------------------------------------------------- main

\* The options main declares (lines 309-320).
Options == {"--calendar", "--start-date", "--end-date", "--days", "--titles"}

\* parser.parse_args() (line 321) on an option that was not declared:
\* argparse prints its usage and the error on stderr and exits with status 2.
ArgparseError ==
    /\ pc' = "exit"
    /\ exit_code' = 2

\* main, lines 307-346: parse the command line, parse and validate the dates.
main_parse_dates ==
    /\ pc = "main"
    /\ LET s == argv.start_date
           e == argv.end_date
           sd == IF Truthy(s) /\ StrptimeOk(s) THEN Strptime(s) ELSE NoneDt
           ed == IF Truthy(e) /\ StrptimeOk(e) THEN Strptime(e) ELSE NoneDt
       IN  IF ~(argv.options \subseteq Options)
           THEN /\ ArgparseError
                /\ UNCHANGED <<stdout, start_date, end_date, calendar_file>>
           ELSE IF Truthy(s) /\ ~StrptimeOk(s)
           THEN /\ stdout' = Emit(stdout, <<"Error: Start date must be in YYYY-MM-DD format">>)
                /\ Exit1
                /\ UNCHANGED <<start_date, end_date, calendar_file>>
           ELSE IF Truthy(e) /\ ~StrptimeOk(e)
           THEN /\ stdout' = Emit(stdout, <<"Error: End date must be in YYYY-MM-DD format">>)
                /\ start_date' = sd
                /\ Exit1
                /\ UNCHANGED <<end_date, calendar_file>>
           ELSE IF sd.some /\ ed.some /\ DtLt(ed, sd)
           THEN /\ stdout' = Emit(stdout, <<"Error: End date cannot be before start date",
                                             "Start date:", "End date:">>)
                /\ start_date' = sd
                /\ end_date' = ed
                /\ Exit1
                /\ UNCHANGED calendar_file
           ELSE /\ stdout' = Emit(stdout, <<"Analyzing your calendar...">>)
                /\ start_date' = sd
                /\ end_date' = ed
                /\ calendar_file' = argv.calendar
                /\ pc' = "get_calendar_path"
                /\ UNCHANGED exit_code
    /\ UNCHANGED <<entry, argv, now, fs, resolve_err, calendar_path, days_back,
                   num_titles, cal, meetings, meeting_stats, handles, summary, raised>>

\* ---------------------------------------------------- get_calendar_path

\* The directories searched when no path is given (lines 60-66), under home.
possible_paths ==
    << <<Name("Library/Calendars", "")>>,
       <<Name("Library/Application Support/Calendar", "")>>,
       <<Name("Library/Application Support/Apple/Calendar", "")>>,
       <<Name("Documents", "")>>,
       <<Name("Downloads", "")>> >>

\* The patterns searched, in order (lines 75 and 93).
Exts == <<".ics", ".icbu", ".sqlitedb">>

\* The matches of one directory: each pattern's rglob in turn.
RECURSIVE FilesIn(_, _, _)
FilesIn(f, path, i) ==
    IF i > Len(Exts) THEN <<>>
    ELSE RGlob(f, path, Exts[i]) \o FilesIn(f, path, i + 1)

\* all_calendar_files (lines 90-94): the matches of every existing directory.
RECURSIVE AllCalendarFiles(_, _)
AllCalendarFiles(f, i) ==
    IF i > Len(possible_paths) THEN <<>>
    ELSE (IF Exists(f, possible_paths[i]) THEN FilesIn(f, possible_paths[i], 1) ELSE <<>>)
         \o AllCalendarFiles(f, i + 1)

\* Newer taking a file of the same age for newer too.
NewerOrSame(f, item, best) == f[item].mtime >= f[best].mtime

\* Newer taking the older file for the newer.
Older(f, item, best) == f[item].mtime < f[best].mtime

\* Whether max keeps its candidate when it meets the next item: Python's
\* max replaces it only for a strictly greater key.
Newer(f, item, best) == f[item].mtime > f[best].mtime

\* max(files, key=lambda x: x.stat().st_mtime) (line 102).
RECURSIVE MaxFrom(_, _, _, _)
MaxFrom(f, files, i, best) ==
    IF i > Len(files) THEN best
    ELSE MaxFrom(f, files, i + 1, IF Newer(f, files[i], best) THEN files[i] ELSE best)

LatestCalendar(f, files) == MaxFrom(f, files, 2, files[1])

\* What the search prints for each directory (lines 68-87).
RECURSIVE SearchReport(_, _)
SearchReport(f, i) ==
    IF i > Len(possible_paths) THEN <<>>
    ELSE (IF ~Exists(f, possible_paths[i]) THEN <<"Directory does not exist">>
          ELSE IF FilesIn(f, possible_paths[i], 1) = <<>>
               THEN <<"Directory exists", "No calendar files found">>
               ELSE <<"Directory exists", "Found calendar files">>)
         \o SearchReport(f, i + 1)

\* Where get_calendar_path returns to: main goes on to call analyze_calendar
\* (lines 350-353); a direct call is over.
ReturnPath(path, out) ==
    /\ calendar_path' = path
    /\ IF entry = "main"
       THEN /\ stdout' = Emit(out, <<"Found calendar at:">>)
            /\ days_back' = argv.days
            /\ pc' = "analyze_calendar"
       ELSE /\ stdout' = out
            /\ pc' = "done"
            /\ UNCHANGED days_back
    /\ UNCHANGED exit_code

\* LocateFails failing on a path that does not exist as well.
LocateFailsWhenMissing(f, path, err) ==
    err \/ ~Exists(f, path) \/ (IsDir(f, path) /\ IterDir(f, path).err)

\* Whether the try block of lines 43-53 raises OSError: resolving the path
\* fails, or the path is a directory whose entries cannot be listed.
LocateFails(f, path, err) == err \/ (IsDir(f, path) /\ IterDir(f, path).err)

\* What lines 45-52 print before the block returns or raises.
Looked(f, path, err) ==
    IF err THEN <<>>
    ELSE IF ~Exists(f, path) THEN <<"Looking for calendar at:", "Path exists: False">>
    ELSE <<"Looking for calendar at:", "Path exists: True", "Is directory:">>
         \o (IF IsDir(f, path)
             THEN <<"Directory contents:">>
                  \o [i \in 1..Len(IterDir(f, path).items) |-> "  - item"]
             ELSE <<>>)

\* get_calendar_path with a path (lines 42-56).
get_calendar_path_given ==
    /\ pc = "get_calendar_path"
    /\ calendar_file.given /\ calendar_file.path # <<>>
    /\ LET path == calendar_file.path
           seen == Emit(stdout, Looked(fs, path, resolve_err))
       IN  IF LocateFails(fs, path, resolve_err)
           THEN /\ stdout' = Emit(seen, <<"Error processing path:">>)
                /\ Exit1
                /\ UNCHANGED <<calendar_path, days_back>>
           ELSE ReturnPath(path, seen)
    /\ UNCHANGED <<entry, argv, now, fs, resolve_err, calendar_file, start_date,
                   end_date, num_titles, cal, meetings, meeting_stats, handles,
                   summary, raised>>

\* get_calendar_path without a path (lines 58-104): the search.
get_calendar_path_search ==
    /\ pc = "get_calendar_path"
    /\ ~(calendar_file.given /\ calendar_file.path # <<>>)
    /\ LET files == AllCalendarFiles(fs, 1)
           seen == Emit(stdout, <<"Searching for calendar files in:">> \o SearchReport(fs, 1))
       IN  IF files = <<>>
           THEN /\ stdout' = Emit(seen, <<"Error: No calendar files found in any of the expected locations.",
                                           "Please export your calendar from the Calendar app:">>)
                /\ Exit1
                /\ UNCHANGED <<calendar_path, days_back>>
           ELSE ReturnPath(LatestCalendar(fs, files),
                           Emit(seen, <<"Selected most recent calendar file:">>))
    /\ UNCHANGED <<entry, argv, now, fs, resolve_err, calendar_file, start_date,
                   end_date, num_titles, cal, meetings, meeting_stats, handles,
                   summary, raised>>

\* ----------------------------------------------------- analyze_calendar

\* The name of the database inside a bundle (line 115).
BundleDb == Name("Calendar", ".sqlitedb")

\* open(path, 'rb') raises OSError unless the path is a regular file.
OpenFails(f, path) == ~Exists(f, path) \/ f[path].kind # "file"

\* The date range (lines 139-142, 186-189): [start_date, end_date].
RangeEnd(ed, clock) == IF ed.some THEN ed ELSE Now(clock)

RangeStart(sd, ed, clock, days) ==
    IF sd.some THEN sd ELSE MinusDays(RangeEnd(ed, clock), days)

\* The call analyze_sqlite_calendar(path, start_date, end_date).
CallSqlite(path, out) ==
    /\ calendar_path' = path
    /\ stdout' = out
    /\ pc' = "analyze_sqlite_calendar"
    /\ UNCHANGED <<start_date, end_date, cal, meetings, meeting_stats, exit_code, raised>>

\* Lines 135-147: read and parse the file, fix the date range, and start
\* the loop over the events.
OpenAndParse(path, out) ==
    /\ calendar_path' = path
    /\ IF OpenFails(fs, path)
       THEN /\ stdout' = Emit(out, <<"Error reading calendar file:">>)
            /\ Exit1
            /\ UNCHANGED <<start_date, end_date, cal, meetings, meeting_stats, raised>>
       ELSE IF ~fs[path].ical.valid
       THEN /\ stdout' = out
            /\ Raise("ValueError")
            /\ UNCHANGED <<start_date, end_date, cal, meetings, meeting_stats>>
       ELSE /\ stdout' = out
            /\ end_date' = RangeEnd(end_date, now)
            /\ start_date' = RangeStart(start_date, end_date, now, days_back)
            /\ cal' = fs[path].ical.events
            /\ meetings' = <<>>
            /\ meeting_stats' = EmptyStats
            /\ pc' = "walk"
            /\ UNCHANGED <<exit_code, raised>>

\* BundleSource looking for a text calendar before the database.
BundleSourceIcsFirst(f, path) ==
    IF Glob(f, path, ".ics") # <<>> THEN "ics"
    ELSE IF Exists(f, Join(path, BundleDb)) THEN "sqlite"
    ELSE "none"

\* The source a bundle offers (lines 115-124): "sqlite" when the database
\* exists in it, else "ics" when a text calendar is directly inside, else "none".
BundleSource(f, path) ==
    IF Exists(f, Join(path, BundleDb)) THEN "sqlite"
    ELSE IF Glob(f, path, ".ics") # <<>> THEN "ics"
    ELSE "none"

\* analyze_calendar, lines 108-147: choose the reader by the suffix.
analyze_calendar ==
    /\ pc = "analyze_calendar"
    /\ LET suffix == Lower(SuffixOf(calendar_path))
           source == BundleSource(fs, calendar_path)
       IN  IF suffix = ".sqlitedb" THEN CallSqlite(calendar_path, stdout)
           ELSE IF suffix # ".icbu" THEN OpenAndParse(calendar_path, stdout)
           ELSE IF source = "sqlite"
           THEN CallSqlite(Join(calendar_path, BundleDb),
                           Emit(stdout, <<"Found SQLite database in ICBU backup:">>))
           ELSE IF source = "ics"
           THEN OpenAndParse(Glob(fs, calendar_path, ".ics")[1],
                             Emit(stdout, <<"Found ICS file in ICBU backup:">>))
           ELSE /\ stdout' = Emit(stdout,
                        <<"Error: Could not find calendar data (SQLite or ICS) in",
                          "Contents of ICBU directory:">>
                        \o (IF IterDir(fs, calendar_path).err
                            THEN <<"Error listing directory contents:">>
                            ELSE [i \in 1..Len(IterDir(fs, calendar_path).items) |-> "  - item"]))
                /\ Exit1
                /\ UNCHANGED <<calendar_path, start_date, end_date, cal, meetings,
                               meeting_stats, raised>>
    /\ UNCHANGED <<entry, argv, now, fs, resolve_err, calendar_file, days_back,
                   num_titles, handles, summary>>

\* IsDatetime taking a date for a datetime.
IsDatetimeOrDate(dtstart) == dtstart.kind \in {"datetime", "date"}

\* Line 151: isinstance(start, datetime), of the value of DTSTART.
IsDatetime(dtstart) == dtstart.kind = "datetime"

\* Line 154: start_date <= start <= end_date.
InRange(start, sd, ed) == DtLe(sd, start) /\ DtLe(start, ed)

\* Lines 156-160: the hours of an event, from what event.get('duration',
\* timedelta(hours=1)) returned.
DurationHours(duration) ==
    IF duration.type = "timedelta" THEN duration.seconds ELSE SecondsPerHour

\* The meeting record of lines 162-167 and 225-230.
Meeting(start, text, hours) ==
    [date |-> DateOf(start), time |-> TimeOf(start), summary |-> text,
     duration_hours |-> hours]

\* Retain with the hours counted as one hour whatever the record holds.
RetainCountingOneHour(m) ==
    /\ meetings' = Append(meetings, m)
    /\ meeting_stats' = StatsAdd(StatsAdd(meeting_stats, "total_meetings", 1),
                                 "total_hours", SecondsPerHour)

\* Lines 162-171 and 225-234: append the record and update the counters.
Retain(m) ==
    /\ meetings' = Append(meetings, m)
    /\ meeting_stats' = StatsAdd(StatsAdd(meeting_stats, "total_meetings", 1),
                                 "total_hours", m.duration_hours)

\* One turn of the loop over cal.walk('VEVENT') (lines 149-171).
analyze_calendar_event ==
    /\ pc = "walk"
    /\ cal # <<>>
    /\ LET event == Head(cal)
           start == convert_to_pacific(event.dtstart)
       IN  IF event.dtstart.kind = "absent"
           THEN /\ Raise("AttributeError")
                /\ UNCHANGED <<cal, meetings, meeting_stats>>
           ELSE /\ cal' = Tail(cal)
                /\ UNCHANGED <<pc, exit_code, raised>>
                /\ IF IsDatetime(event.dtstart) /\ InRange(start, start_date, end_date)
                   THEN Retain(Meeting(start, EventGetSummary(event),
                                       DurationHours(EventGetDuration(event, OneHourDelta))))
                   ELSE UNCHANGED <<meetings, meeting_stats>>
    /\ UNCHANGED <<entry, argv, now, fs, resolve_err, calendar_file, calendar_path,
                   start_date, end_date, days_back, num_titles, handles, summary, stdout>>

\* Where the readers return to (lines 173 and 237): main goes on to call
\* generate_summary (line 356); a direct call is over.
ReturnMeetings ==
    IF entry = "main"
    THEN /\ num_titles' = argv.titles
         /\ pc' = "generate_summary"
    ELSE /\ pc' = "done"
         /\ UNCHANGED num_titles

\* analyze_calendar_return leaving the loop before its last event.
analyze_calendar_return_early ==
    /\ pc = "walk"
    /\ ReturnMeetings
    /\ UNCHANGED <<entry, argv, now, fs, resolve_err, calendar_file, calendar_path,
                   start_date, end_date, days_back, cal, meetings, meeting_stats,
                   handles, summary, stdout, exit_code, raised>>

\* The loop is over: return meetings, meeting_stats (line 173).
analyze_calendar_return ==
    /\ pc = "walk"
    /\ cal = <<>>
    /\ ReturnMeetings
    /\ UNCHANGED <<entry, argv, now, fs, resolve_err, calendar_file, calendar_path,
                   start_date, end_date, days_back, cal, meetings, meeting_stats,
                   handles, summary, stdout, exit_code, raised>>

\* ---------------------------------------------- analyze_sqlite_calendar

\* The number of days the SQLite reader looks back (line 189).
SqliteDays == 365

\* int((date - apple_epoch).total_seconds()) (lines 192-194): the difference
\* of two datetimes with different tzinfo is the difference of their
\* instants, and int() drops the fraction, rounding towards zero.
AppleSeconds(dt) ==
    IF Instant(dt) < 0 /\ dt.microsecond > 0 THEN Instant(dt) + 1 ELSE Instant(dt)

\* The rows the query of lines 197-204 selects, in table order.
RECURSIVE SelectRows(_, _, _)
SelectRows(rows, lo, hi) ==
    IF rows = <<>> THEN <<>>
    ELSE LET rest == SelectRows(Tail(rows), lo, hi)
         IN  IF Head(rows).start_date >= lo /\ Head(rows).start_date <= hi
             THEN <<Head(rows)>> \o rest ELSE rest

\* Whether sqlite3.connect(path) raises: the path is a directory, or it does
\* not exist and its directory does not either.
ParentOf(path) == SubSeq(path, 1, Len(path) - 1)

ConnectFails(f, path) ==
    \/ IsDir(f, path)
    \/ ~Exists(f, path) /\ ParentOf(path) # <<>> /\ ~IsDir(f, ParentOf(path))

\* The filesystem after sqlite3.connect(path): a missing file is created, empty.
AfterConnect(f, path) ==
    IF Exists(f, path) \/ ConnectFails(f, path) THEN f
    ELSE [q \in DOMAIN f \cup {path} |-> IF q = path THEN JunkFile(3) ELSE f[q]]

\* SqliteRangeStart looking back the days analyze_calendar was given.
SqliteRangeStartDaysBack(sd, ed, clock) == RangeStart(sd, ed, clock, days_back)

\* Lines 188-189: without a start date the range starts 365 days before its
\* end; analyze_sqlite_calendar has no days_back parameter (lines 111, 117, 179).
SqliteRangeStart(sd, ed, clock) == RangeStart(sd, ed, clock, SqliteDays)

\* analyze_sqlite_calendar, lines 181-207: connect, fix the date range, query.
analyze_sqlite_calendar ==
    /\ pc = "analyze_sqlite_calendar"
    /\ fs' = AfterConnect(fs, calendar_path)
    /\ LET ed == RangeEnd(end_date, now)
           sd == SqliteRangeStart(start_date, end_date, now)
       IN  IF ConnectFails(fs, calendar_path)
           THEN /\ stdout' = Emit(stdout, <<"Error reading SQLite calendar:">>)
                /\ Exit1
                /\ UNCHANGED <<start_date, end_date, cal, meetings, meeting_stats, handles>>
           ELSE IF ~fs'[calendar_path].db.isdb
           THEN /\ stdout' = Emit(stdout, <<"Error reading SQLite calendar:">>)
                /\ Exit1
                /\ handles' = handles \cup {"conn"}
                /\ start_date' = sd
                /\ end_date' = ed
                /\ UNCHANGED <<cal, meetings, meeting_stats>>
           ELSE /\ handles' = handles \cup {"conn"}
                /\ start_date' = sd
                /\ end_date' = ed
                /\ cal' = SelectRows(fs[calendar_path].db.rows, AppleSeconds(sd), AppleSeconds(ed))
                /\ meetings' = <<>>
                /\ meeting_stats' = EmptyStats
                /\ pc' = "rows"
                /\ UNCHANGED <<stdout, exit_code>>
    /\ UNCHANGED <<entry, argv, now, resolve_err, calendar_file, calendar_path,
                   days_back, num_titles, summary, raised>>

\* summary or 'No Title' (line 228)
RowSummary(row) ==
    IF row.summary.null \/ row.summary.text = <<>> THEN NoTitle ELSE row.summary.text

\* Lines 215-223: the hours of a row. Both datetimes carry tzinfo=PACIFIC,
\* and Python subtracts such datetimes by their clock readings.
RowHours(row) == ToPacific(row.end_date).wall - ToPacific(row.start_date).wall

\* One turn of the loop over cursor.fetchall() (lines 209-234).
analyze_sqlite_calendar_row ==
    /\ pc = "rows"
    /\ cal # <<>>
    /\ cal' = Tail(cal)
    /\ Retain(Meeting(ToPacific(Head(cal).start_date), RowSummary(Head(cal)),
                      RowHours(Head(cal))))
    /\ UNCHANGED <<entry, pc, argv, now, fs, resolve_err, calendar_file, calendar_path,
                   start_date, end_date, days_back, num_titles, handles, summary,
                   stdout, exit_code, raised>>

\* The loop is over: conn.close() and return (lines 236-237).
analyze_sqlite_calendar_return ==
    /\ pc = "rows"
    /\ cal = <<>>
    /\ handles' = handles \ {"conn"}
    /\ ReturnMeetings
    /\ UNCHANGED <<entry, argv, now, fs, resolve_err, calendar_file, calendar_path,
                   start_date, end_date, days_back, cal, meetings, meeting_stats,
                   summary, stdout, exit_code, raised>>

\* ----------------------------------------------------- generate_summary

\* The longest title shown in full (line 300).
TitleLimit == 100

\* The number of start times shown: DataFrame.head()'s default (line 287).
TopTimes == 5

\* The divisor of the average per day (line 252).
DaysPerYear == 365

NoMeetingsText == "No meetings found in the specified time period."

\* stats[key] of a dict that is not a defaultdict raises KeyError when the
\* key is missing.
StatsMissing(stats, key) == ~stats.default /\ ~stats[key].set

StatsGet(stats, key) == stats[key].v

\* pd.DataFrame(meetings) (line 249) has the columns of the records: made
\* from no record it has none, and df[field] raises KeyError (line 261).
ColumnMissing(ms, field) == \A i \in DOMAIN ms : field \notin DOMAIN ms[i]

\* The values of one column, and the number of records holding a value.
Column(ms, field) == {ms[i][field] : i \in DOMAIN ms}

CountOf(ms, field, v) == Cardinality({i \in DOMAIN ms : ms[i][field] = v})

\* df[field].value_counts(): the distinct values by falling count. The order
\* among values of equal count is not specified, so any is possible.
ValueCounts(ms, field) ==
    LET vals == Column(ms, field)
        n == Cardinality(vals)
    IN  { r \in [1..n -> vals] :
            /\ \A i, j \in 1..n : i # j => r[i] # r[j]
            /\ \A i \in 1..n : \A j \in 1..n :
                 i < j => CountOf(ms, field, r[i]) >= CountOf(ms, field, r[j]) }

\* Series.head(n): the first n entries; for n < 0, all but the last -n.
HeadN(r, n) ==
    IF n >= 0 THEN SubSeq(r, 1, IF n < Len(r) THEN n ELSE Len(r))
    ELSE SubSeq(r, 1, IF Len(r) + n > 0 THEN Len(r) + n ELSE 0)

\* DisplayTitle cutting a title of exactly TitleLimit characters too.
DisplayTitleFromLimit(title) ==
    IF Len(title) >= TitleLimit
    THEN SubSeq(title, 1, TitleLimit) \o <<".", ".", ".">>
    ELSE title

\* Line 300: title[:100] + "..." if len(title) > 100 else title.
DisplayTitle(title) ==
    IF Len(title) > TitleLimit
    THEN SubSeq(title, 1, TitleLimit) \o <<".", ".", ".">>
    ELSE title

\* min and max of the date column (lines 261-262).
MinDate(ms) == CHOOSE d \in Column(ms, "date") : \A e \in Column(ms, "date") : d <= e

MaxDate(ms) == CHOOSE d \in Column(ms, "date") : \A e \in Column(ms, "date") : d >= e

\* AvgMeetingsPerDay dividing by the days the records span.
AvgMeetingsPerDayOfSpan(ms, stats) ==
    [num |-> StatsGet(stats, "total_meetings"), den |-> MaxDate(ms) - MinDate(ms) + 1]

\* Line 252: stats['total_meetings'] / 365, whatever the records are.
AvgMeetingsPerDay(ms, stats) ==
    [num |-> StatsGet(stats, "total_meetings"), den |-> DaysPerYear]

\* The report of lines 266-303, one field per line or block of lines.
Report(ms, stats, n, times, titles) ==
    [kind |-> "report",
     is_dst |-> UtcOffset(now.sec) = PDT,
     from |-> MinDate(ms),
     to |-> MaxDate(ms),
     span |-> MaxDate(ms) - MinDate(ms),
     total_meetings |-> StatsGet(stats, "total_meetings"),
     total_hours |-> StatsGet(stats, "total_hours"),
     avg_meetings_per_day |-> AvgMeetingsPerDay(ms, stats),
     avg_meeting_duration |-> [num |-> StatsGet(stats, "total_hours"),
                               den |-> StatsGet(stats, "total_meetings")],
     times |-> [i \in 1..Len(HeadN(times, TopTimes)) |->
                  [time |-> times[i], count |-> CountOf(ms, "time", times[i])]],
     num_titles |-> n,
     titles |-> [i \in 1..Len(HeadN(titles, n)) |->
                  [count |-> CountOf(ms, "summary", titles[i]),
                   display_title |-> DisplayTitle(titles[i])]]]

\* NoMeetings finding meetings in any list.
NoMeetingsNever(ms) == FALSE

\* Line 245: not meetings.
NoMeetings(ms) == ms = <<>>

\* Where generate_summary returns to: main prints the result (line 357).
ReturnSummary(text) ==
    /\ summary' = text
    /\ pc' = IF entry = "main" THEN "print" ELSE "done"
    /\ UNCHANGED <<exit_code, raised>>

\* generate_summary (lines 243-303).
generate_summary ==
    /\ pc = "generate_summary"
    /\ IF NoMeetings(meetings)
       THEN ReturnSummary([kind |-> "text", text |-> NoMeetingsText])
       ELSE IF StatsMissing(meeting_stats, "total_meetings")
               \/ StatsMissing(meeting_stats, "total_hours")
       THEN Raise("KeyError") /\ UNCHANGED summary
       ELSE IF StatsGet(meeting_stats, "total_meetings") = 0
       THEN Raise("ZeroDivisionError") /\ UNCHANGED summary
       ELSE IF ColumnMissing(meetings, "date")
       THEN Raise("KeyError") /\ UNCHANGED summary
       ELSE \E times \in ValueCounts(meetings, "time") :
            \E titles \in ValueCounts(meetings, "summary") :
                ReturnSummary(Report(meetings, meeting_stats, num_titles, times, titles))
    /\ UNCHANGED <<entry, argv, now, fs, resolve_err, calendar_file, calendar_path,
                   start_date, end_date, days_back, num_titles, cal, meetings,
                   meeting_stats, handles, stdout>>

\* main, line 357: print the summary; the run ends with status 0.
main_print ==
    /\ pc = "print"
    /\ stdout' = Emit(stdout, <<"<summary>">>)
    /\ pc' = "done"
    /\ exit_code' = 0
    /\ UNCHANGED <<entry, argv, now, fs, resolve_err, calendar_file, calendar_path,
                   start_date, end_date, days_back, num_titles, cal, meetings,
                   meeting_stats, handles, summary, raised>>

\* --------------------------------------------------------------- inputs

\* The bounds of the inputs.
MaxEvents == 2

MaxRows == 2

MaxFiles == 2

MaxMeetings == 2

SeqsUpTo(S, n) == UNION {[1..k -> S] : k \in 0..n}

\* The dates of the window used: 2001-06-30 .. 2001-07-03, Pacific midnights.
WinStart == Strptime(DateArg("-", 2001, 6, 30))

WinEnd == Strptime(DateArg("-", 2001, 7, 3))

\* The instant PDT ends in 2001, 2001-10-28T09:00:00Z: the clock readings
\* 01:00..02:00 occur before and after it.
FallBack == Utc(2001, 10, 28, 9, 0, 0)

\* The clock readings of the runs: an ordinary instant, 01:30 PDT before the
\* clocks are set back and 01:10 PST after.
NowJuly == Clock(Utc(2001, 7, 2, 12, 0, 0), 0)

\* A reading between two seconds, 365 days and half a second after
\* 2001-07-01T10:00:00Z.
NowBetween == Clock(Utc(2002, 7, 1, 10, 0, 0), 500000)

Nows == {NowJuly, NowBetween, Clock(FallBack - 1800, 0), Clock(FallBack + 600, 0)}

TitleT == <<"T", "e", "s", "t">>

TitleP == <<"S", "y", "n", "c">>

\* The events of the text calendars: inside the window, on and next to its
\* two ends, a date-only event, a datetime without a zone, events in the
\* repeated hour, and an event without DTSTART.
EventSet ==
    { Event("datetime", "UTC", Utc(2001, 7, 1, 10, 0, 0), TitleT, "vDuration", 3600),
      Event("datetime", "UTC", Utc(2001, 7, 2, 15, 0, 0), TitleP, "vDuration", 7200),
      Event("datetime", "UTC", Instant(WinStart), <<>>, "absent", 0),
      Event("datetime", "UTC", Instant(WinStart) - 1, TitleT, "absent", 0),
      Event("datetime", "UTC", Instant(WinEnd), TitleP, "vText", 0),
      Event("datetime", "UTC", Instant(WinEnd) + 1, TitleT, "vDuration", 1800),
      Event("date", "NONE", DayNumber(2001, 7, 1) * SecondsPerDay, TitleP, "absent", 0),
      Event("datetime", "NONE", Utc(2001, 7, 1, 17, 0, 0), TitleT, "absent", 0),
      Event("datetime", "UTC", FallBack - 1800, TitleT, "vDuration", 3600),
      Event("datetime", "UTC", FallBack + 600, TitleP, "absent", 0),
      Event("absent", "NONE", 0, TitleT, "absent", 0) }

Docs == SeqsUpTo(EventSet, MaxEvents)

\* The rows of the databases: inside the window, on its ends, across the
\* end of PDT, with a NULL and an empty summary, and ending before starting.
RowSet ==
    { Row(TitleT, FALSE, Utc(2001, 7, 1, 10, 0, 0), Utc(2001, 7, 1, 11, 0, 0)),
      Row(<<>>, TRUE, Instant(WinStart), Instant(WinStart) + 1800),
      Row(<<>>, FALSE, Instant(WinEnd), Instant(WinEnd) + 7200),
      Row(TitleP, FALSE, Instant(WinEnd) + 1, Instant(WinEnd) + 3601),
      Row(TitleP, FALSE, FallBack - 1800, FallBack + 1800),
      Row(TitleT, FALSE, Utc(2001, 7, 2, 15, 0, 0), Utc(2001, 7, 2, 14, 0, 0)) }

Tables == SeqsUpTo(RowSet, MaxRows)

\* The date ranges of a call of analyze_calendar: <<start, end, days, now>>.
\* The clock is read only without an end date, days_back only without a start.
Ranges ==
    { r \in {NoneDt, WinStart} \X {NoneDt, WinEnd} \X {DefaultDays, 1} \X Nows :
        /\ r[2].some => r[4] = NowJuly
        /\ r[1].some => r[3] = DefaultDays }

EmptyFs == <<>>

PathIcs == <<Name("cal", ".ics")>>

PathDb == <<Name("Calendar", ".sqlitedb")>>

PathBundle == <<Name("backup", ".icbu")>>

PathBundleUpper == <<Name("BACKUP", ".ICBU")>>

PathNoDir == <<Name("nodir", ""), Name("x", ".sqlitedb")>>

\* The test calendar: a 1h and a 2h event inside the window.
DocTwo ==
    << Event("datetime", "UTC", Utc(2001, 7, 1, 10, 0, 0), TitleT, "vDuration", 3600),
       Event("datetime", "UTC", Utc(2001, 7, 2, 15, 0, 0), TitleP, "vDuration", 7200) >>

DocOne == << Event("datetime", "UTC", Utc(2001, 7, 1, 17, 0, 0), TitleP, "absent", 0) >>

TableOne == << Row(TitleT, FALSE, Utc(2001, 7, 1, 10, 0, 0), Utc(2001, 7, 1, 11, 0, 0)) >>

\* The names a bundle may list, and the file behind each.
NameA == Name("a", ".ics")

NameB == Name("b", ".ics")

NameOther == Name("metadata", ".plist")

BundleListings ==
    { <<>>, <<NameOther>>, <<NameA>>, <<NameB, NameA>>, <<NameOther, NameA, NameB>>,
      <<BundleDb>>, <<NameA, BundleDb>>, <<BundleDb, NameOther, NameB>> }

BundleFile(name) ==
    IF name = BundleDb THEN DbFile(1, TableOne)
    ELSE IF name = NameA THEN IcsFile(1, DocTwo)
    ELSE IF name = NameB THEN IcsFile(1, DocOne)
    ELSE JunkFile(1)

\* A bundle directory at path with the listing, which can be listed or not.
BundleFs(path, listing, listable) ==
    [q \in {path} \cup {Join(path, listing[i]) : i \in DOMAIN listing} |->
        IF q = path THEN DirNode(1, listing, listable) ELSE BundleFile(q[Len(q)])]

BundleWorlds ==
    { <<PathBundle, BundleFs(PathBundle, l, b)>> : l \in BundleListings, b \in BOOLEAN }
    \cup { <<PathBundleUpper, BundleFs(PathBundleUpper, <<NameA, BundleDb>>, TRUE)>>,
           <<PathBundle, PathBundle :> JunkFile(1)>>,
           <<PathBundle, EmptyFs>> }

\* The worlds of a call of analyze_calendar: <<path, filesystem>>.
TextWorlds ==
    { <<PathIcs, PathIcs :> IcsFile(1, doc)>> : doc \in Docs }
    \cup { <<PathIcs, EmptyFs>>,
           <<PathIcs, PathIcs :> JunkFile(1)>>,
           <<PathIcs, PathIcs :> DirNode(1, <<>>, TRUE)>> }

DbWorlds ==
    { <<PathDb, PathDb :> DbFile(1, rows)>> : rows \in Tables }
    \cup { <<PathDb, EmptyFs>>,
           <<PathDb, PathDb :> JunkFile(1)>>,
           <<PathDb, PathDb :> DirNode(1, <<>>, TRUE)>>,
           <<PathNoDir, EmptyFs>> }

\* The files a search may find: [dir, ext, mtime], the directory by its
\* place in possible_paths and the suffix by its place in Exts; a
\* sequence of them lists the files of each directory in directory order.
Stems == <<"f1", "f2", "f3", "f4", "f5", "f6">>

FoundSet == [dir : 1..Len(possible_paths), ext : 1..Len(Exts), mtime : {1, 2}]

FoundSeqs ==
    { fl \in SeqsUpTo(FoundSet, MaxFiles) :
        \A i \in 1..(Len(fl) - 1) : fl[i].dir <= fl[i + 1].dir }

FoundName(fl, i) == Name(Stems[i], Exts[fl[i].ext])

FoundPath(fl, i) == Join(possible_paths[fl[i].dir], FoundName(fl, i))

FoundNode(file) ==
    IF Exts[file.ext] = ".ics" THEN IcsFile(file.mtime, DocTwo)
    ELSE IF Exts[file.ext] = ".sqlitedb" THEN DbFile(file.mtime, TableOne)
    ELSE DirNode(file.mtime, <<>>, TRUE)

RECURSIVE NamesIn(_, _, _)
NamesIn(fl, d, i) ==
    IF i > Len(fl) THEN <<>>
    ELSE (IF fl[i].dir = d THEN <<FoundName(fl, i)>> ELSE <<>>) \o NamesIn(fl, d, i + 1)

\* The filesystem holding the files: their directories exist, and so does
\* Documents.
SearchFs(fl) ==
    LET dirs == {fl[i].dir : i \in DOMAIN fl} \cup {4}
    IN  [q \in {possible_paths[d] : d \in dirs} \cup {FoundPath(fl, i) : i \in DOMAIN fl} |->
           IF Len(q) = 1
           THEN DirNode(1, NamesIn(fl, CHOOSE d \in dirs : possible_paths[d] = q, 1), TRUE)
           ELSE FoundNode(fl[CHOOSE i \in DOMAIN fl : FoundPath(fl, i) = q])]

\* Documents/exports/deep.ics next to Documents/old.ics: a file in a subdirectory.
NestedFs ==
    LET docs == possible_paths[4]
        sub == Join(docs, Name("exports", ""))
    IN  (docs :> DirNode(1, <<Name("exports", ""), Name("old", ".ics")>>, TRUE))
        @@ (sub :> DirNode(1, <<Name("deep", ".ics")>>, TRUE))
        @@ (Join(sub, Name("deep", ".ics")) :> IcsFile(2, DocOne))
        @@ (Join(docs, Name("old", ".ics")) :> IcsFile(1, DocTwo))

SearchWorlds == {SearchFs(fl) : fl \in FoundSeqs} \cup {EmptyFs, NestedFs}

\* The command lines of main.
StartArgs ==
    { NoArg, EmptyArg, DateArg("-", 2001, 6, 30), DateArg("-", 2000, 2, 29),
      DateArg("-", 2001, 2, 29), DateArg("/", 2001, 6, 30), DateArg("-", 2001, 7, 4),
      DateArg("x", 0, 0, 0) }

EndArgs ==
    { NoArg, EmptyArg, DateArg("-", 2001, 7, 3), DateArg("-", 2001, 6, 30),
      DateArg("/", 2001, 1, 1) }

NoArgv ==
    [options |-> {}, calendar |-> NoCalendar, start_date |-> NoArg, end_date |-> NoArg,
     days |-> DefaultDays, titles |-> DefaultTitles]

\* The option names of a command line giving the calendar c and the dates
\* s and e, with the further options more.
OptionNames(c, s, e, more) ==
    {"--days", "--titles"} \cup more
    \cup (IF c.given THEN {"--calendar"} ELSE {})
    \cup (IF s.given THEN {"--start-date"} ELSE {})
    \cup (IF e.given THEN {"--end-date"} ELSE {})

\* What main's command lines hold besides: nothing, or an --output option
\* as the tests of the file output give it.
MoreOptions == { {}, {"--output"} }

\* What main may find: <<--calendar, filesystem, whether resolve raises>>.
MainWorlds ==
    { <<CalendarArg(PathIcs), PathIcs :> IcsFile(1, DocTwo), FALSE>>,
      <<CalendarArg(PathIcs), EmptyFs, FALSE>>,
      <<CalendarArg(PathIcs), PathIcs :> JunkFile(1), FALSE>>,
      <<CalendarArg(PathDb), PathDb :> JunkFile(1), FALSE>>,
      <<CalendarArg(PathDb), EmptyFs, FALSE>>,
      <<CalendarArg(PathBundle), EmptyFs, FALSE>>,
      <<CalendarArg(PathBundle), BundleFs(PathBundle, <<NameOther>>, FALSE), FALSE>>,
      <<CalendarArg(PathIcs), PathIcs :> IcsFile(1, DocTwo), TRUE>>,
      <<CalendarArg(PathDb), PathDb :> DbFile(1, TableOne), FALSE>>,
      <<CalendarArg(PathBundle), BundleFs(PathBundle, <<NameA, BundleDb>>, TRUE), FALSE>>,
      <<CalendarArg(<<>>), PathIcs :> IcsFile(1, DocTwo), FALSE>>,
      <<NoCalendar, SearchFs(<< [dir |-> 4, ext |-> 1, mtime |-> 1],
                               [dir |-> 4, ext |-> 1, mtime |-> 2] >>), FALSE>>,
      <<NoCalendar, EmptyFs, FALSE>> }

\* What a call of get_calendar_path may find.
LocateWorlds ==
    { <<NoCalendar, w, FALSE>> : w \in SearchWorlds }
    \cup { <<CalendarArg(<<>>), NestedFs, FALSE>> }
    \cup { <<CalendarArg(w[1]), w[2], r>> :
             w \in BundleWorlds \cup { <<PathIcs, PathIcs :> IcsFile(1, DocTwo)>>,
                                       <<PathIcs, EmptyFs>>,
                                       <<PathDb, EmptyFs>> },
             r \in BOOLEAN }

\* The records generate_summary may be given: titles of 150, 100 and 101
\* characters, two of which share their first 100.
MeetingSet ==
    { [date |-> 181, time |-> 36000, summary |-> Chars("A", 150), duration_hours |-> 3600],
      [date |-> 181, time |-> 50400, summary |-> TitleT, duration_hours |-> 3600],
      [date |-> 182, time |-> 36000, summary |-> Chars("A", 100), duration_hours |-> 1800],
      [date |-> 183, time |-> 36000, summary |-> Chars("A", 100) \o <<"B">>,
       duration_hours |-> 3600],
      [date |-> 183, time |-> 32400, summary |-> Chars("A", 100) \o <<"C">>,
       duration_hours |-> 7200] }

\* A longer list: eight records at six start times, two of the times held
\* by two records each, so that the five lines of the start-time block
\* (line 287) cannot hold every time.
Record(d, t, title) == [date |-> d, time |-> t, summary |-> title, duration_hours |-> 3600]

SixTimes ==
    << Record(181, 32400, TitleT), Record(181, 36000, TitleT),
       Record(182, 36000, TitleP), Record(182, 39600, TitleT),
       Record(183, 43200, TitleP), Record(183, 46800, TitleT),
       Record(184, 50400, TitleT), Record(184, 50400, TitleP) >>

MeetingLists == SeqsUpTo(MeetingSet, MaxMeetings) \cup {SixTimes}

RECURSIVE SumHours(_)
SumHours(ms) == IF ms = <<>> THEN 0 ELSE Head(ms).duration_hours + SumHours(Tail(ms))

Dict(isdefault, isset, n, h) ==
    [default |-> isdefault, total_meetings |-> [set |-> isset, v |-> n],
     total_hours |-> [set |-> isset, v |-> h]]

\* The stats generate_summary may be given with the records: the dict of
\* their totals, an empty dict, a dict of zeros and an empty defaultdict.
StatsFor(ms) ==
    { Dict(FALSE, TRUE, Len(ms), SumHours(ms)), Dict(FALSE, FALSE, 0, 0),
      Dict(FALSE, TRUE, 0, 0), EmptyStats }

TitleCounts == {-1, 0, 1, DefaultTitles}

\* ----------------------------------------------------------------- runs

Fresh ==
    /\ cal = <<>>
    /\ handles = {}
    /\ summary = NoSummary
    /\ stdout = <<>>
    /\ exit_code = -1
    /\ raised = ""

\* A run of the program: main with a command line.
InitMain ==
    /\ entry = "main"
    /\ pc = "main"
    /\ \E w \in MainWorlds, s \in StartArgs, e \in EndArgs,
          d \in {DefaultDays, 1}, t \in {DefaultTitles, 1}, o \in MoreOptions :
          /\ argv = [options |-> OptionNames(w[1], s, e, o), calendar |-> w[1], start_date |-> s,
                     end_date |-> e, days |-> d, titles |-> t]
          /\ fs = w[2]
          /\ resolve_err = w[3]
    /\ now \in Nows
    /\ calendar_file = NoCalendar
    /\ calendar_path = <<>>
    /\ start_date = NoneDt
    /\ end_date = NoneDt
    /\ days_back = DefaultDays
    /\ num_titles = DefaultTitles
    /\ meetings = <<>>
    /\ meeting_stats = EmptyStats
    /\ Fresh

\* A call get_calendar_path(calendar_file).
InitLocate ==
    /\ entry = "get_calendar_path"
    /\ pc = "get_calendar_path"
    /\ \E w \in LocateWorlds :
          /\ calendar_file = w[1]
          /\ fs = w[2]
          /\ resolve_err = w[3]
    /\ argv = NoArgv
    /\ calendar_path = <<>>
    /\ start_date = NoneDt
    /\ end_date = NoneDt
    /\ days_back = DefaultDays
    /\ num_titles = DefaultTitles
    /\ now = NowJuly
    /\ meetings = <<>>
    /\ meeting_stats = EmptyStats
    /\ Fresh

\* A call analyze_calendar(calendar_path, start_date, end_date, days_back).
InitAnalyze ==
    /\ entry = "analyze_calendar"
    /\ pc = "analyze_calendar"
    /\ \E w \in TextWorlds \cup DbWorlds \cup BundleWorlds :
          /\ calendar_path = w[1]
          /\ fs = w[2]
    /\ \E r \in Ranges :
          /\ start_date = r[1]
          /\ end_date = r[2]
          /\ days_back = r[3]
          /\ now = r[4]
    /\ argv = NoArgv
    /\ calendar_file = NoCalendar
    /\ resolve_err = FALSE
    /\ num_titles = DefaultTitles
    /\ meetings = <<>>
    /\ meeting_stats = EmptyStats
    /\ Fresh

\* A call generate_summary(meetings, stats, num_titles).
InitSummary ==
    /\ entry = "generate_summary"
    /\ pc = "generate_summary"
    /\ meetings \in MeetingLists
    /\ meeting_stats \in StatsFor(meetings)
    /\ num_titles \in TitleCounts
    /\ now \in {NowJuly, Clock(FallBack + 600, 0)}
    /\ argv = NoArgv
    /\ calendar_file = NoCalendar
    /\ calendar_path = <<>>
    /\ start_date = NoneDt
    /\ end_date = NoneDt
    /\ days_back = DefaultDays
    /\ fs = EmptyFs
    /\ resolve_err = FALSE
    /\ Fresh

Init == InitMain \/ InitLocate \/ InitAnalyze \/ InitSummary

Next ==
    \/ main_parse_dates
    \/ get_calendar_path_given
    \/ get_calendar_path_search
    \/ analyze_calendar
    \/ analyze_calendar_event
    \/ analyze_calendar_return
    \/ analyze_sqlite_calendar
    \/ analyze_sqlite_calendar_row
    \/ analyze_sqlite_calendar_return
    \/ generate_summary
    \/ main_print

Spec == Init /\ [][Next]_vars

\* --------------------------------------------------------------- claims

\* The run is in, or has returned from, one of the two readers.
InReader == entry \in {"main", "analyze_calendar"} /\ pc \in {"walk", "rows"}

AfterReader ==
    entry \in {"main", "analyze_calendar"} /\ pc \in {"generate_summary", "print", "done"}

\* The run reads, or has read, a text calendar: the events of the document
\* and those the loop has processed so far.
InTextReader ==
    /\ InReader \/ AfterReader
    /\ pc # "rows"
    /\ Exists(fs, calendar_path)
    /\ fs[calendar_path].ical.valid

Document == fs[calendar_path].ical.events

Processed == SubSeq(Document, 1, Len(Document) - Len(cal))

\* C1: after every turn of the aggregation loops and after the readers
\* return, total_meetings is the number of meeting records and total_hours
\* is the sum of their duration_hours.
C1_TotalsMatchMeetings ==
    (InReader \/ AfterReader) =>
        /\ StatsGet(meeting_stats, "total_meetings") = Len(meetings)
        /\ StatsGet(meeting_stats, "total_hours") = SumHours(meetings)

\* Both loops have retained records of different durations.
C1_Witness ==
    /\ entry = "analyze_calendar"
    /\ pc = "done"
    /\ Len(meetings) = 2
    /\ meetings[1].duration_hours # meetings[2].duration_hours
    /\ SuffixOf(calendar_path) = ".sqlitedb"

\* Whether the whole second s is at or after, and at or before, the
\* instant of the datetime dt.
NotBefore(s, dt) == Instant(dt) < s \/ (Instant(dt) = s /\ dt.microsecond = 0)

NotAfter(s, dt) == s <= Instant(dt)

\* The events among es whose start is a datetime and whose instant lies in
\* [sd, ed], bounds included.
RECURSIVE InstantsInWindow(_, _, _)
InstantsInWindow(es, sd, ed) ==
    IF es = <<>> THEN <<>>
    ELSE LET e == Head(es)
             s == Instant(convert_to_pacific(e.dtstart))
             rest == InstantsInWindow(Tail(es), sd, ed)
         IN  IF e.dtstart.kind = "datetime" /\ NotBefore(s, sd) /\ NotAfter(s, ed)
             THEN <<s>> \o rest ELSE rest

\* The instants of the meeting records, from their date and time.
MeetingInstants ==
    [i \in 1..Len(meetings) |->
        LET w == meetings[i].date * SecondsPerDay + meetings[i].time
        IN  {t \in {w - PDT, w - PST} : ToPacific(t).wall = w}]

\* C2: in the text reader the events retained are exactly the timed events
\* whose start instant s satisfies start_date <= s <= end_date.
C2_RetainedIffInstantInWindow ==
    InTextReader =>
        LET want == InstantsInWindow(Processed, start_date, end_date)
        IN  /\ Len(meetings) = Len(want)
            /\ \A i \in 1..Len(want) : want[i] \in MeetingInstants[i]

\* The events the loop retains: timed, and in the range as line 154 tests it.
RECURSIVE RetainedEvents(_, _, _)
RetainedEvents(es, sd, ed) ==
    IF es = <<>> THEN <<>>
    ELSE LET e == Head(es)
             rest == RetainedEvents(Tail(es), sd, ed)
         IN  IF e.dtstart.kind = "datetime" /\ InRange(convert_to_pacific(e.dtstart), sd, ed)
             THEN <<e>> \o rest ELSE rest

\* C3: every retained event with a DURATION contributes that duration, and
\* every retained event without one contributes exactly one hour.
C3_ExplicitDurationCounts ==
    InTextReader =>
        LET kept == RetainedEvents(Processed, start_date, end_date)
        IN  /\ Len(meetings) = Len(kept)
            /\ \A i \in 1..Len(kept) :
                 meetings[i].duration_hours =
                    IF kept[i].duration.type = "vDuration"
                    THEN kept[i].duration.seconds ELSE SecondsPerHour

\* C4: a turn of the loop on an event whose DTSTART is a date leaves the
\* meetings and the counters as they are and goes on with the next event.
C4_DateOnlyEventsSkipped ==
    [][(pc = "walk" /\ cal # <<>> /\ Head(cal).dtstart.kind = "date") =>
          /\ meetings' = meetings
          /\ meeting_stats' = meeting_stats
          /\ cal' = Tail(cal)
          /\ pc' = "walk"]_vars

\* A document with a date-only event inside the window and a timed event:
\* the loop is over and only the timed event was retained.
C4_Witness ==
    /\ InTextReader
    /\ pc = "done"
    /\ Len(Document) = 2
    /\ Document[1].dtstart.kind = "date"
    /\ DtLe(start_date, ToPacific(Document[1].dtstart.clock))
    /\ DtLe(ToPacific(Document[1].dtstart.clock), end_date)
    /\ Len(meetings) = 1

\* Whether a message was printed, and the message printed last.
Printed(msg) == \E i \in DOMAIN stdout : stdout[i] = msg

LastPrinted == IF stdout = <<>> THEN "" ELSE stdout[Len(stdout)]

\* A date argument that is given and is not a valid YYYY-MM-DD date.
BadDate(arg) == arg.given /\ ~StrptimeOk(arg)

\* Both dates are valid and the end date is a day before the start date.
EndBeforeStart(s, e) ==
    /\ s.given /\ StrptimeOk(s)
    /\ e.given /\ StrptimeOk(e)
    /\ DayNumber(e.y, e.m, e.d) < DayNumber(s.y, s.m, s.d)

\* Nothing of get_calendar_path, analyze_calendar or generate_summary was done.
NothingLocated ==
    /\ calendar_path = <<>>
    /\ meetings = <<>>
    /\ summary = NoSummary
    /\ ~Printed("Looking for calendar at:")
    /\ ~Printed("Searching for calendar files in:")

\* C5: once main is past its date handling, a start or end date that is
\* not a valid YYYY-MM-DD date, or an end date before the start date, has
\* ended the run with status 1 and its message, with nothing located, read
\* or summarised.
C5_BadDatesRejected ==
    (entry = "main" /\ pc # "main") =>
        LET s == argv.start_date
            e == argv.end_date
        IN  /\ BadDate(s) =>
                /\ pc = "exit" /\ exit_code = 1 /\ NothingLocated
                /\ stdout = <<"Error: Start date must be in YYYY-MM-DD format">>
            /\ (~BadDate(s) /\ BadDate(e)) =>
                /\ pc = "exit" /\ exit_code = 1 /\ NothingLocated
                /\ stdout = <<"Error: End date must be in YYYY-MM-DD format">>
            /\ EndBeforeStart(s, e) =>
                /\ pc = "exit" /\ exit_code = 1 /\ NothingLocated
                /\ stdout[1] = "Error: End date cannot be before start date"

\* get_calendar_path was called with a path and is over.
ExplicitPathLocated ==
    /\ entry \in {"main", "get_calendar_path"}
    /\ calendar_file.given /\ calendar_file.path # <<>>
    /\ pc \notin {"main", "get_calendar_path"}

\* get_calendar_path returned its argument: its caller has the path.
ReturnedPath ==
    /\ entry = "get_calendar_path" =>
          pc = "done" /\ exit_code = -1 /\ calendar_path = calendar_file.path
    /\ entry = "main" => Printed("Found calendar at:")

\* get_calendar_path ended the run.
ExitedLocating ==
    /\ pc = "exit" /\ exit_code = 1 /\ calendar_path = <<>>
    /\ LastPrinted = "Error processing path:"

\* main's run on a path that did not exist is over, the readers included.
MissingPathRead ==
    /\ entry = "main"
    /\ Printed("Path exists: False")
    /\ pc \notin {"analyze_calendar", "analyze_sqlite_calendar"}

\* C6 as stated: with a path, get_calendar_path exits only when resolving
\* raises and otherwise returns the path, never searching; a path that does
\* not exist then ends the run with 'Error reading calendar file:'.
C6_MissingPathFailsReadingFile ==
    ExplicitPathLocated =>
        /\ ~Printed("Searching for calendar files in:")
        /\ IF resolve_err THEN ExitedLocating ELSE ReturnedPath
        /\ MissingPathRead =>
              /\ pc = "exit" /\ exit_code = 1
              /\ LastPrinted = "Error reading calendar file:"

\* The message a reader ends with on a path that does not exist, by suffix.
MissingPathError(path) ==
    IF Lower(SuffixOf(path)) = ".sqlitedb" THEN "Error reading SQLite calendar:"
    ELSE IF Lower(SuffixOf(path)) = ".icbu" THEN "Error listing directory contents:"
    ELSE "Error reading calendar file:"

\* C6: with a path, get_calendar_path exits only when resolving the path or
\* listing it as a directory raises, and otherwise returns the path, never
\* searching; a path that does not exist then ends the run with status 1 in
\* the reader its suffix selects, with that reader's message.
C6_MissingPathFailsInReader ==
    ExplicitPathLocated =>
        /\ ~Printed("Searching for calendar files in:")
        /\ IF resolve_err \/ (IsDir(fs, calendar_file.path) /\ ~fs[calendar_file.path].listable)
           THEN ExitedLocating ELSE ReturnedPath
        /\ MissingPathRead =>
              /\ pc = "exit" /\ exit_code = 1
              /\ LastPrinted = MissingPathError(calendar_file.path)
              /\ Lower(SuffixOf(calendar_file.path)) = ".icbu" =>
                    Printed("Error: Could not find calendar data (SQLite or ICS) in")

\* main was given a text calendar that does not exist: get_calendar_path
\* returned its path and analyze_calendar failed to open it.
C6_Witness ==
    /\ entry = "main"
    /\ pc = "exit"
    /\ Printed("Path exists: False")
    /\ Printed("Found calendar at:")
    /\ LastPrinted = "Error reading calendar file:"

\* The calendar files under the well-known directories: every path below
\* one of them with a calendar suffix.
CalendarSuffixes == {".ics", ".icbu", ".sqlitedb"}

Candidates ==
    { p \in DOMAIN fs :
        /\ Len(p) >= 2
        /\ \E i \in DOMAIN possible_paths : SubSeq(p, 1, 1) = possible_paths[i]
        /\ SuffixOf(p) \in CalendarSuffixes }

\* get_calendar_path searched and is over; it has just returned.
SearchOver ==
    /\ entry \in {"main", "get_calendar_path"}
    /\ pc # "get_calendar_path"
    /\ Printed("Searching for calendar files in:")

JustLocated ==
    \/ entry = "get_calendar_path" /\ pc = "done"
    \/ entry = "main" /\ pc = "analyze_calendar"

\* C7: without a path, get_calendar_path returns a calendar file under the
\* well-known directories that is at least as recent as every other; when
\* there is none it prints the 'No calendar files found' error and the
\* export instructions and the run ends with status 1, nothing parsed or
\* summarised.
C7_SearchReturnsLatest ==
    SearchOver =>
        IF Candidates = {}
        THEN /\ pc = "exit" /\ exit_code = 1
             /\ Printed("Error: No calendar files found in any of the expected locations.")
             /\ LastPrinted = "Please export your calendar from the Calendar app:"
             /\ calendar_path = <<>> /\ meetings = <<>> /\ summary = NoSummary
        ELSE /\ Printed("Selected most recent calendar file:")
             /\ ~Printed("Error: No calendar files found in any of the expected locations.")
             /\ JustLocated =>
                   /\ calendar_path \in Candidates
                   /\ \A q \in Candidates : fs[calendar_path].mtime >= fs[q].mtime

\* The search found an older file before the one it returned.
C7_Witness ==
    /\ SearchOver
    /\ JustLocated
    /\ AllCalendarFiles(fs, 1)[1] # calendar_path
    /\ \E q \in Candidates : fs[q].mtime < fs[calendar_path].mtime

\* The text calendars directly inside a bundle that can be listed, and the
\* first of them in directory order.
IcsInside(path) ==
    IF IsDir(fs, path) /\ fs[path].listable
    THEN {i \in DOMAIN fs[path].listing : fs[path].listing[i].suffix = ".ics"}
    ELSE {}

FirstIcsInside(path) ==
    Join(path, fs[path].listing[CHOOSE i \in IcsInside(path) : \A j \in IcsInside(path) : i <= j])

\* C8: analyze_calendar on a bundle hands the bundle's Calendar.sqlitedb,
\* when it exists, to analyze_sqlite_calendar with the bounds unchanged,
\* whatever else the bundle holds; otherwise it reads the first text
\* calendar directly inside; otherwise it prints the 'Could not find
\* calendar data' error and the run ends with status 1.
C8_BundlePrecedence ==
    [][(pc = "analyze_calendar" /\ Lower(SuffixOf(calendar_path)) = ".icbu") =>
          IF Exists(fs, Join(calendar_path, BundleDb))
          THEN /\ pc' = "analyze_sqlite_calendar"
               /\ calendar_path' = Join(calendar_path, BundleDb)
               /\ start_date' = start_date /\ end_date' = end_date
               /\ exit_code' = exit_code
               /\ stdout'[Len(stdout')] = "Found SQLite database in ICBU backup:"
          ELSE IF IcsInside(calendar_path) # {}
          THEN /\ calendar_path' = FirstIcsInside(calendar_path)
               /\ pc' = "walk"
               /\ cal' = fs[FirstIcsInside(calendar_path)].ical.events
          ELSE /\ pc' = "exit" /\ exit_code' = 1
               /\ \E i \in DOMAIN stdout' :
                     stdout'[i] = "Error: Could not find calendar data (SQLite or ICS) in"
               /\ meetings' = meetings]_vars

\* A bundle listing a text calendar before its database was analyzed: the
\* records are those of the database.
C8_Witness ==
    /\ entry = "analyze_calendar"
    /\ pc = "done"
    /\ Len(calendar_path) = 2
    /\ calendar_path[2] = BundleDb
    /\ IcsInside(ParentOf(calendar_path)) # {}
    /\ fs[ParentOf(calendar_path)].listing[1].suffix = ".ics"
    /\ meetings # <<>>

\* generate_summary is over, having returned or raised.
SummaryOver ==
    \/ entry = "generate_summary" /\ pc # "generate_summary"
    \/ /\ entry = "main"
       /\ pc \in {"print", "done"} \/ raised \in {"KeyError", "ZeroDivisionError"}

\* C9: generate_summary of an empty list of meetings returns the text 'No
\* meetings found in the specified time period.' and raises nothing,
\* whatever the stats hold and whatever num_titles is.
C9_NoMeetingsText ==
    (SummaryOver /\ meetings = <<>>) =>
        /\ pc \in {"done", "print"}
        /\ raised = ""
        /\ summary.kind = "text"
        /\ summary.text = "No meetings found in the specified time period."

\* generate_summary returned for no meetings, an empty dict, num_titles -1.
C9_Witness ==
    /\ entry = "generate_summary"
    /\ pc = "done"
    /\ meetings = <<>>
    /\ ~meeting_stats.default
    /\ ~meeting_stats.total_meetings.set
    /\ num_titles = -1
    /\ summary.kind = "text"

\* A title as the report is to show it: whole up to 100 characters,
\* else its first 100 characters and three dots.
Shown(title) ==
    IF Len(title) <= 100 THEN title
    ELSE [i \in 1..103 |-> IF i <= 100 THEN title[i] ELSE "."]

MeetingsTitled(title) == {i \in DOMAIN meetings : meetings[i].summary = title}

\* C10: the lines of the report's title block stand for distinct titles of
\* the meetings, each shown whole when it has at most 100 characters and
\* as its first 100 characters and '...' otherwise, with the number of
\* meetings of exactly that title; when num_titles allows, every distinct
\* title has its line.
C10_TitlesCutForDisplayOnly ==
    summary.kind = "report" =>
        LET lines == summary.titles
            titles == {meetings[i].summary : i \in DOMAIN meetings}
        IN  /\ \E r \in [DOMAIN lines -> titles] :
                 /\ \A i, j \in DOMAIN lines : i # j => r[i] # r[j]
                 /\ \A i \in DOMAIN lines :
                      /\ lines[i].display_title = Shown(r[i])
                      /\ lines[i].count = Cardinality(MeetingsTitled(r[i]))
            /\ num_titles >= Cardinality(titles) => Len(lines) = Cardinality(titles)

\* Two titles of 101 characters with the same first 100 have a line each,
\* both showing the same 103 characters.
C10_Witness ==
    /\ summary.kind = "report"
    /\ Len(summary.titles) = 2
    /\ meetings[1].summary # meetings[2].summary
    /\ summary.titles[1].display_title = summary.titles[2].display_title
    /\ Len(summary.titles[1].display_title) = 103
    /\ summary.titles[1].count = 1

\* analyze_calendar opened a file whose content the parser rejects.
ParseRejected ==
    /\ entry \in {"main", "analyze_calendar"}
    /\ pc \notin {"main", "get_calendar_path", "analyze_calendar"}
    /\ Lower(SuffixOf(calendar_path)) # ".sqlitedb"
    /\ ~OpenFails(fs, calendar_path)
    /\ ~fs[calendar_path].ical.valid

\* C11: when the parser rejects the content of a file that was opened,
\* analyze_calendar prints a message of its own, other than 'Error reading
\* calendar file:', and ends the run with sys.exit(1).
C11_ParseFailureReported ==
    ParseRejected =>
        /\ pc = "exit"
        /\ exit_code = 1
        /\ raised = ""
        /\ stdout # <<>>
        /\ LastPrinted \notin {"Error reading calendar file:", "Found calendar at:",
                               "Found ICS file in ICBU backup:"}

\* The run is over.
Ended == pc \in {"exit", "done", "raised"}

\* The messages of the fatal errors of locating and reading.
StageErrors ==
    { "Error: Start date must be in YYYY-MM-DD format",
      "Error: End date must be in YYYY-MM-DD format",
      "Error: End date cannot be before start date",
      "Error processing path:",
      "Error: No calendar files found in any of the expected locations.",
      "Error: Could not find calendar data (SQLite or ICS) in",
      "Error reading calendar file:",
      "Error reading SQLite calendar:" }

\* C12: a run of main given --output that no earlier error ended has either
\* written the report and printed 'Analysis saved to:', or printed 'Error
\* saving to file:' and exited with status 1.
C12_ReportSavedToOutput ==
    (entry = "main" /\ "--output" \in argv.options /\ Ended
        /\ raised = "" /\ \A msg \in StageErrors : ~Printed(msg)) =>
        \/ Printed("Analysis saved to:") /\ exit_code = 0
        \/ LastPrinted = "Error saving to file:" /\ exit_code = 1

\* C13: when the run is over, by a return or by an error, no file handle
\* and no database connection the readers acquired is still open.
C13_HandlesReleased == Ended => handles = {}

\* The stages of main in their order: argument validation, Locator, Reader
\* and aggregation, Formatter, the printing of the report, the end.
Stage(p) ==
    CASE p = "main" -> 1
      [] p = "get_calendar_path" -> 2
      [] p \in {"analyze_calendar", "analyze_sqlite_calendar"} -> 3
      [] p \in {"walk", "rows"} -> 4
      [] p = "generate_summary" -> 5
      [] p = "print" -> 6
      [] OTHER -> 7

\* C14: a step of main never goes back to an earlier stage and leaves a
\* stage only for the next or for the end of the run; the summary is made
\* and the report printed only once the loop has processed every event;
\* and a run that ended in a fatal error has made and printed no report.
C14_StagesInOrder ==
    [][entry = "main" =>
          /\ Stage(pc') \in {Stage(pc), Stage(pc) + 1, 7}
          /\ Stage(pc') = Stage(pc) => pc \in {"analyze_calendar", "walk", "rows"}
          /\ summary' # NoSummary => (cal' = <<>> /\ Stage(pc) >= 5)
          /\ (\E i \in DOMAIN stdout' : stdout'[i] = "<summary>") =>
                (pc = "print" /\ cal = <<>> /\ summary # NoSummary)
          /\ pc' \in {"exit", "raised"} =>
                /\ summary' = NoSummary
                /\ \A i \in DOMAIN stdout' : stdout'[i] # "<summary>"]_vars

\* main printed the report of a calendar with two events in the window.
C14_Witness ==
    /\ entry = "main"
    /\ pc = "done"
    /\ Printed("<summary>")
    /\ summary.kind = "report"
    /\ Len(meetings) = 2
    /\ exit_code = 0

\* C15: the counters are zero when a loop starts; a turn of either loop
\* lowers neither counter and leaves both at zero or above; and every
\* meeting record has duration_hours >= 0.
C15_CountersNeverDecrease ==
    [][/\ (pc \notin {"walk", "rows"} /\ pc' \in {"walk", "rows"}) =>
             /\ StatsGet(meeting_stats', "total_meetings") = 0
             /\ StatsGet(meeting_stats', "total_hours") = 0
             /\ meetings' = <<>>
       /\ (pc \in {"walk", "rows"}) =>
             /\ StatsGet(meeting_stats', "total_meetings")
                   >= StatsGet(meeting_stats, "total_meetings")
             /\ StatsGet(meeting_stats', "total_hours")
                   >= StatsGet(meeting_stats, "total_hours")
             /\ StatsGet(meeting_stats', "total_hours") >= 0
             /\ \A i \in DOMAIN meetings' : meetings'[i].duration_hours >= 0]_vars

\* C16: no step of a run changes the filesystem: analyze_sqlite_calendar
\* leaves every path as it found it and creates no file.
C16_SourceNeverWritten == [][fs' = fs]_vars

\* The SQLite reader has returned the meetings of the database at calendar_path.
AfterSqliteReader ==
    /\ AfterReader
    /\ Exists(fs, calendar_path)
    /\ fs[calendar_path].db.isdb

\* The rows whose start instant lies in [sd, ed], bounds included.
RECURSIVE RowsInWindow(_, _, _)
RowsInWindow(rows, sd, ed) ==
    IF rows = <<>> THEN <<>>
    ELSE LET rest == RowsInWindow(Tail(rows), sd, ed)
         IN  IF NotBefore(Head(rows).start_date, sd) /\ NotAfter(Head(rows).start_date, ed)
             THEN <<Head(rows)>> \o rest ELSE rest

\* C17: the SQLite reader returns one record for each row whose start
\* instant lies in [start_date, end_date], in table order, with
\* duration_hours the stored end less the stored start.
C17_RowsInWindowWithStoredDuration ==
    AfterSqliteReader =>
        LET want == RowsInWindow(fs[calendar_path].db.rows, start_date, end_date)
        IN  /\ Len(meetings) = Len(want)
            /\ \A i \in 1..Len(want) :
                 /\ want[i].start_date \in MeetingInstants[i]
                 /\ meetings[i].duration_hours = want[i].end_date - want[i].start_date

\* The offset of Pacific time from UTC in force at the instant t: daylight
\* time from the first Sunday of April to the last Sunday of October.
DaylightTime ==
    { <<Utc(2000, 4, 2, 10, 0, 0), Utc(2000, 10, 29, 9, 0, 0)>>,
      <<Utc(2001, 4, 1, 10, 0, 0), Utc(2001, 10, 28, 9, 0, 0)>>,
      <<Utc(2002, 4, 7, 10, 0, 0), Utc(2002, 10, 27, 9, 0, 0)>> }

SeasonalOffset(t) ==
    IF \E season \in DaylightTime : season[1] <= t /\ t < season[2]
    THEN -7 * 3600 ELSE -8 * 3600

FirstOfJulyFivePm == Utc(2001, 7, 1, 17, 0, 0)

FirstOfJuly == DayNumber(2001, 7, 1)

\* C18: for every timed event of the document read, convert_to_pacific
\* gives a start without zone the Pacific datetime of the UTC start with the
\* same clock value; the result denotes the instant of the input and reads
\* the offset in force at it (17:00 UTC on 1 July is 10:00); and the records
\* retained carry that date and time.
C18_NaiveStartReadAsUtc ==
    InTextReader =>
        /\ \A i \in DOMAIN Document :
             LET dt == Document[i].dtstart
                 p == convert_to_pacific(dt)
             IN  dt.kind = "datetime" =>
                   /\ p = convert_to_pacific([dt EXCEPT !.tzinfo = "UTC"])
                   /\ Instant(p) = dt.clock
                   /\ p.wall = dt.clock + SeasonalOffset(dt.clock)
                   /\ dt.clock = FirstOfJulyFivePm =>
                         (DateOf(p) = FirstOfJuly /\ TimeOf(p) = 10 * 3600)
        /\ LET kept == RetainedEvents(Processed, start_date, end_date)
           IN  /\ Len(meetings) = Len(kept)
               /\ \A i \in 1..Len(kept) :
                    meetings[i].date * SecondsPerDay + meetings[i].time =
                       kept[i].dtstart.clock + SeasonalOffset(kept[i].dtstart.clock)

\* An event whose start has no zone and reads 17:00 on 1 July was retained
\* with the time 10:00.
C18_Witness ==
    /\ InTextReader
    /\ pc = "done"
    /\ Len(Document) = 1
    /\ Document[1].dtstart.tzinfo = "NONE"
    /\ Document[1].dtstart.kind = "datetime"
    /\ Len(meetings) = 1
    /\ meetings[1].time = 10 * 3600

\* The places, in the order the search found the files, of those files
\* that no file found is more recent than.
MostRecentFound ==
    LET files == AllCalendarFiles(fs, 1)
    IN  {i \in DOMAIN files : \A j \in DOMAIN files : fs[files[i]].mtime >= fs[files[j]].mtime}

\* C19 as stated: of the most recent files the search found, get_calendar_path
\* returns the one found last.
C19_LastOfMostRecent ==
    (SearchOver /\ JustLocated) =>
        \E i \in MostRecentFound :
            /\ calendar_path = AllCalendarFiles(fs, 1)[i]
            /\ \A j \in MostRecentFound : j <= i

\* C19: of the most recent files the search found, get_calendar_path
\* returns the one found first.
C19_FirstOfMostRecent ==
    (SearchOver /\ JustLocated) =>
        \E i \in MostRecentFound :
            /\ calendar_path = AllCalendarFiles(fs, 1)[i]
            /\ \A j \in MostRecentFound : i <= j

\* The search found two files of the same, most recent, age and returned
\* the first.
C19_Witness ==
    /\ SearchOver
    /\ JustLocated
    /\ Cardinality(MostRecentFound) = 2
    /\ calendar_path = AllCalendarFiles(fs, 1)[1]

\* C20: a report gives the average meetings per day as total_meetings
\* over 365 and the average duration as total_hours over total_meetings;
\* the meetings a reader returned, when there are any, come with
\* total_meetings >= 1, and main's summary of them does not divide by zero.
C20_AveragesOverFixedYear ==
    /\ summary.kind = "report" =>
          /\ summary.avg_meetings_per_day.num = meeting_stats.total_meetings.v
          /\ summary.avg_meetings_per_day.den = 365
          /\ summary.avg_meeting_duration.num = meeting_stats.total_hours.v
          /\ summary.avg_meeting_duration.den = meeting_stats.total_meetings.v
          /\ summary.avg_meeting_duration.den # 0
    /\ (AfterReader /\ meetings # <<>>) =>
          /\ meeting_stats.total_meetings.v >= 1
          /\ (entry = "main" /\ pc \in {"print", "done"}) => summary.kind = "report"
    /\ entry \in {"main", "analyze_calendar"} => raised # "ZeroDivisionError"

\* main, asked for one day back, reported two meetings a day apart with
\* the average over 365 days.
C20_Witness ==
    /\ entry = "main"
    /\ pc = "done"
    /\ argv.days = 1
    /\ summary.kind = "report"
    /\ summary.span = 1
    /\ summary.avg_meetings_per_day = [num |-> 2, den |-> 365]

\* The range start a reader uses when it is given none: its end less the days.
StartBefore(ed, days) ==
    [some |-> TRUE, wall |-> ed.wall - days * SecondsPerDay, fold |-> 0,
     microsecond |-> ed.microsecond]

\* The database the SQLite reader was sent to: the calendar itself, or the
\* Calendar.sqlitedb of a bundle.
InBundle == Len(calendar_path) > 1 /\ calendar_path[Len(calendar_path)] = BundleDb

MeetingsAt(time) == {i \in DOMAIN meetings : meetings[i].time = time}

Least(a, b) == IF a <= b THEN a ELSE b

\* Whether the numbers of a block never rise from one line to the next.
Falling(counts) ==
    \A i, j \in DOMAIN counts : i < j => counts[i] >= counts[j]

\* C21: the report of a non-empty list of meetings has min(5, distinct
\* start times) start-time lines and min(num_titles, distinct titles) title
\* lines; each line carries the number of meetings at exactly its time or
\* of exactly its title, the numbers never rise down a block, and nothing
\* left out of a block has a greater number than a line of it.
C21_TopBlocks ==
    (meetings # <<>> /\ summary.kind = "report") =>
        LET times == {meetings[i].time : i \in DOMAIN meetings}
            titles == {meetings[i].summary : i \in DOMAIN meetings}
            tl == summary.times
            sl == summary.titles
        IN  /\ Len(tl) = Least(5, Cardinality(times))
            /\ \A i \in DOMAIN tl :
                 /\ tl[i].time \in times
                 /\ tl[i].count = Cardinality(MeetingsAt(tl[i].time))
            /\ \A i, j \in DOMAIN tl : i # j => tl[i].time # tl[j].time
            /\ Falling([i \in DOMAIN tl |-> tl[i].count])
            /\ \A t \in times \ {tl[i].time : i \in DOMAIN tl} :
                 \A i \in DOMAIN tl : Cardinality(MeetingsAt(t)) <= tl[i].count
            /\ Len(sl) = Least(num_titles, Cardinality(titles))
            /\ Falling([i \in DOMAIN sl |-> sl[i].count])
            /\ \E r \in [DOMAIN sl -> titles] :
                 /\ \A i, j \in DOMAIN sl : i # j => r[i] # r[j]
                 /\ \A i \in DOMAIN sl :
                      /\ sl[i].display_title = Shown(r[i])
                      /\ sl[i].count = Cardinality(MeetingsTitled(r[i]))
                 /\ \A t \in titles \ {r[i] : i \in DOMAIN sl} :
                      \A i \in DOMAIN sl : Cardinality(MeetingsTitled(t)) <= sl[i].count

====
